---------------------------- MODULE Spec2Model ----------------------------
(***************************************************************************)
(* Grid-based Bayesian filtering and smoothing (point_mass_density) and    *)
(* the sampling / kernel-density filter (novel_density) of                 *)
(* scripts/exact_1d_bayesian_filtering_demo.py.                            *)
(*                                                                         *)
(* Array values are exact extended rationals <<n, d>>: d > 0 is the        *)
(* reduced fraction n/d, <<1, 0>> is +inf, <<-1, 0>> is -inf and <<0, 0>>  *)
(* is NaN, with the IEEE rules for 0/0, x/0, inf*0 and inf-inf.            *)
(* Python's 0-based arrays over the grid become functions over             *)
(* 1..GridSize; arrays over time keep their 0-based index 0..max_iter.     *)
(***************************************************************************)
EXTENDS Integers, Sequences, FiniteSets, TLC

(* Bounds of the model. *)
MaxIter == 2
GridSize == 3
NumSamples == 2

-----------------------------------------------------------------------------
(* Extended rational arithmetic (the floating point values of the arrays). *)

Abs(n) == IF n < 0 THEN -n ELSE n

Sign(n) == IF n > 0 THEN 1 ELSE IF n < 0 THEN -1 ELSE 0

RECURSIVE GCD(_, _)
GCD(a, b) == IF b = 0 THEN a ELSE GCD(b, a % b)

Rat(n, d) ==
    IF d = 0 THEN <<Sign(n), 0>>
    ELSE LET s == IF d < 0 THEN -1 ELSE 1
             g == GCD(Abs(n), Abs(d))
         IN <<(s * n) \div g, (s * d) \div g>>

Zero == <<0, 1>>
One == <<1, 1>>
Inf == <<1, 0>>
NaN == <<0, 0>>
FromInt(n) == <<n, 1>>

IsFinite(a) == a[2] # 0
IsNaN(a) == a = NaN

(* n1/d1 * n2/d2, the common factors cancelled before multiplying. *)
MulFrac(n1, d1, n2, d2) ==
    LET g1 == GCD(Abs(n1), Abs(d2))
        g2 == GCD(Abs(n2), Abs(d1))
        c1 == IF g1 = 0 THEN 1 ELSE g1
        c2 == IF g2 = 0 THEN 1 ELSE g2
    IN Rat((n1 \div c1) * (n2 \div c2), (d1 \div c2) * (d2 \div c1))

Mul(a, b) == MulFrac(a[1], a[2], b[1], b[2])

Div(a, b) == MulFrac(a[1], a[2], b[2], b[1])

Add(a, b) ==
    IF a[2] = 0 /\ b[2] = 0 THEN (IF a = b THEN a ELSE NaN)
    ELSE IF a[2] = 0 THEN a
    ELSE IF b[2] = 0 THEN b
    ELSE LET g == GCD(a[2], b[2])
         IN Rat(a[1] * (b[2] \div g) + b[1] * (a[2] \div g), (a[2] \div g) * b[2])

Neg(a) == <<-a[1], a[2]>>

Sub(a, b) == Add(a, Neg(b))

(* a < b; any comparison with NaN is false. *)
Less(a, b) ==
    /\ ~IsNaN(a) /\ ~IsNaN(b)
    /\ IF a[2] = 0 /\ b[2] = 0 THEN a[1] < b[1]
       ELSE IF a[2] = 0 THEN a[1] < 0
       ELSE IF b[2] = 0 THEN b[1] > 0
       ELSE a[1] * b[2] < b[1] * a[2]

AbsR(a) == <<Abs(a[1]), a[2]>>

Idx == 1..GridSize

(* The array fn over 1..n with every element computed once. *)
RECURSIVE Eager(_, _)
Eager(fn, n) == IF n = 0 THEN <<>> ELSE Append(Eager(fn, n - 1), fn[n])

Vec(fn) == Eager(fn, GridSize)

(* jnp.sum of the array a over the index range 1..n. *)
RECURSIVE SumTo(_, _)
SumTo(a, n) == IF n = 0 THEN Zero ELSE Add(SumTo(a, n - 1), a[n])

sum(a) == SumTo(a, GridSize)

(* Normalize with the division by the total mass left out. *)
Normalize_NoDivision(a) == Vec([g \in Idx |-> a[g]])

(* a / jnp.sum(a) *)
Normalize(a) == LET total == sum(a) IN Vec([i \in Idx |-> Div(a[i], total)])

(* a / delta, element by element. *)
Scale(a, delta) == Vec([i \in Idx |-> Div(a[i], FromInt(delta))])


-----------------------------------------------------------------------------
(* The caller-supplied model: grids, transition and measurement functions, *)
(* noise densities, the initial density and the measured values.  States   *)
(* and measurements are integers; density values are small integers, the   *)
(* tails of a density being exactly zero as they are after underflow.      *)

Grids == {[i \in Idx |-> 2 * (i - 1)]}

FTags == {"walk", "alt", "fold"}
HTags == {"id", "sat"}
VPdfTags == {"tri", "skew"}
EPdfTags == {"tri", "point"}
X0PdfTags == {"tri", "flat"}
YValues == {0, 2, 9}

Max(a, b) == IF a > b THEN a ELSE b
Min(a, b) == IF a < b THEN a ELSE b

(* f(x, v, k): the state transition function. *)
f(tag, x, v, k) ==
    CASE tag = "walk" -> x + v
      [] tag = "alt"  -> x + 2 * (k % 2) + v
      [] tag = "fold" -> Abs(x - 2) + v

(* h(x, e): the measurement function; "sat" saturates x + e to [0, 2]. *)
h(tag, x, e) ==
    CASE tag = "id"  -> x + e
      [] tag = "sat" -> Max(Min(x + e, 2), 0)

Tri(z) == Max(0, 3 - Abs(z))

v_pdf(tag, z) ==
    CASE tag = "tri"  -> FromInt(Tri(z))
      [] tag = "skew" -> FromInt(IF z = 0 THEN 2 ELSE IF z = 2 THEN 1 ELSE 0)

(* e_pdf of y - e for a measured y that may be the infinite sentinel. *)
e_pdf(tag, yv, e) ==
    IF ~IsFinite(yv) THEN (IF IsNaN(yv) THEN NaN ELSE Zero)
    ELSE CASE tag = "tri"   -> FromInt(Tri(yv[1] - e))
           [] tag = "point" -> FromInt(IF yv[1] - e = 0 THEN 1 ELSE 0)

x0_pdf(tag, x) ==
    CASE tag = "tri"  -> FromInt(Tri(x))
      [] tag = "flat" -> One

VARIABLES engine, pc, max_iter, y, x_grid, model, n_done, carry,
          ys_filter, ys_pred, p_filter, p_pred, p_smooth_max_iter,
          ys_smooth, ret, px, unnorm, norm_ok, y_read, div_read, smooth_of,
          kernel_variance, rand, part, keys_used

vars == <<engine, pc, max_iter, y, x_grid, model, n_done, carry,
          ys_filter, ys_pred, p_filter, p_pred, p_smooth_max_iter,
          ys_smooth, ret, px, unnorm, norm_ok, y_read, div_read, smooth_of,
          kernel_variance, rand, part, keys_used>>

novel_vars == <<kernel_variance, rand, part, keys_used>>

Delta(grid) == grid[2] - grid[1]

(* The total mass a normalization divides by is a nonzero finite number. *)
NonzeroMass(a) == LET total == sum(a) IN IsFinite(total) /\ total # Zero

-----------------------------------------------------------------------------
(* The exact point-mass engine. *)

x_pdf(x_new, x, k) ==
    LET v == x_new - f(model.f, x, 0, k)
    IN v_pdf(model.v_pdf, x - v)

y_likelihood(yv, x) ==
    LET e == h(model.h, x, 0)
    IN e_pdf(model.e_pdf, yv, e)

(* x_pdf(k, x_new=X.T, x=X): row r holds x_new = x_grid[r], column c x = x_grid[c]. *)
Kernel(k) == Vec([r \in Idx |-> Vec([c \in Idx |-> x_pdf(x_grid[r], x_grid[c], k)])])

(* The update reading the measurement of the previous time index. *)
MeasurementIndex_Previous(k) == k - 1

(* The index of the measurement the update at step k reads. *)
MeasurementIndex(k) == k

p_filter0 == Normalize(Vec([g \in Idx |-> x0_pdf(model.x0_pdf, x_grid[g])]))

p_pred0 == Vec([g \in Idx |-> Inf])

get_next_filter_pred_densities(p_filter_prev, k, yy) ==
    LET kern == Kernel(k - 1)
        p_joint == Vec([r \in Idx |-> Vec([c \in Idx |-> Mul(kern[r][c], p_filter_prev[c])])])
        pred_raw == Vec([r \in Idx |-> sum(p_joint[r])])
        p_pred_k == Normalize(pred_raw)
        filt_raw == Vec([g \in Idx |->
                       Mul(p_pred_k[g], y_likelihood(yy[MeasurementIndex(k)], x_grid[g]))])
        p_filter_k == Normalize(filt_raw)
    IN [px |-> kern, p_pred_k |-> p_pred_k, unnorm |-> filt_raw,
        p_filter_k |-> p_filter_k,
        ok |-> NonzeroMass(pred_raw) /\ NonzeroMass(filt_raw)]

get_next_smooth_density(p_smooth_prev, k) ==
    LET kern == Kernel(k)
        w == Vec([r \in Idx |-> Vec([c \in Idx |->
                 Div(Mul(kern[r][c], p_smooth_prev[c]), p_pred[k + 1][c])])])
        marg == Vec([r \in Idx |-> sum(w[r])])
        raw == Vec([r \in Idx |-> Mul(marg[r], p_filter[k][r])])
    IN [px |-> kern, unnorm |-> raw, p_smooth_k |-> Normalize(raw),
        ok |-> NonzeroMass(raw)]

(* jnp.array([first, *ys]) for the stacked outputs ys of a scan over 1..max_iter. *)
Prepend(first, ys) == [t \in 0..max_iter |-> IF t = 0 THEN first ELSE ys[t]]

(* The terminal entry put first, the scan outputs after it. *)
AppendLast_TerminalFirst(ys, last) ==
    [t \in 0..max_iter |-> IF t = 0 THEN last ELSE ys[t]]

(* jnp.array([*ys, last]) *)
AppendLast(ys, last) == [t \in 0..max_iter |-> IF t < max_iter THEN ys[t + 1] ELSE last]

(* p_filter[max_iter].copy() *)
TerminalSmooth(pf) == pf[max_iter]

(* The position in xs that a reverse scan over n elements handles in its *)
(* (done+1)-th iteration; its output is stacked at that same position.   *)
ReversePos(done, n) == n - done

ScaleAll(arr, delta) == [t \in DOMAIN arr |-> Scale(arr[t], delta)]

Empty == <<>>

InitPM ==
    /\ engine = "pm"
    /\ max_iter \in 0..MaxIter
    /\ y \in {yy \in [0..max_iter -> {Inf} \cup {FromInt(v) : v \in YValues}] :
                 yy[0] = Inf /\ \A t \in 1..max_iter : yy[t] # Inf}
    /\ x_grid \in Grids
    /\ model \in [f : FTags, h : HTags, v_pdf : VPdfTags, e_pdf : EPdfTags,
                  x0_pdf : X0PdfTags]
    /\ pc = "forward"
    /\ n_done = 0
    /\ carry = p_filter0
    /\ norm_ok = NonzeroMass(Vec([g \in Idx |-> x0_pdf(model.x0_pdf, x_grid[g])]))
    /\ ys_filter = Empty /\ ys_pred = Empty /\ ys_smooth = Empty
    /\ p_filter = Empty /\ p_pred = Empty /\ p_smooth_max_iter = Empty
    /\ ret = Empty /\ px = Empty /\ unnorm = Empty
    /\ y_read = {} /\ div_read = {} /\ smooth_of = Empty
    /\ kernel_variance = 0 /\ rand = Empty /\ part = Empty /\ keys_used = Empty

(* One iteration of the forward scan over xs = 1..max_iter. *)
FilterPredStep ==
    /\ engine = "pm" /\ pc = "forward" /\ n_done < max_iter
    /\ LET k == n_done + 1
           r == get_next_filter_pred_densities(carry, k, y)
       IN /\ carry' = r.p_filter_k
          /\ ys_filter' = Append(ys_filter, r.p_filter_k)
          /\ ys_pred' = Append(ys_pred, r.p_pred_k)
          /\ px' = r.px
          /\ unnorm' = r.unnorm
          /\ norm_ok' = (norm_ok /\ r.ok)
          /\ y_read' = y_read \cup {MeasurementIndex(k)}
    /\ n_done' = n_done + 1
    /\ UNCHANGED <<engine, pc, max_iter, y, x_grid, model, p_filter, p_pred,
                   p_smooth_max_iter, ys_smooth, ret, div_read, smooth_of,
                   novel_vars>>

(* The forward scan is over: the arrays are assembled, the backward scan set up. *)
StartSmoothing ==
    /\ engine = "pm" /\ pc = "forward" /\ n_done = max_iter
    /\ p_filter' = Prepend(p_filter0, ys_filter)
    /\ p_pred' = Prepend(p_pred0, ys_pred)
    /\ p_smooth_max_iter' = TerminalSmooth(p_filter')
    /\ carry' = p_smooth_max_iter'
    /\ pc' = "backward"
    /\ n_done' = 0
    /\ UNCHANGED <<engine, max_iter, y, x_grid, model, ys_filter, ys_pred,
                   ys_smooth, ret, px, unnorm, norm_ok, y_read, div_read, smooth_of,
                   novel_vars>>

(* One iteration of the reverse scan over xs = 0..max_iter-1. *)
SmoothStep ==
    /\ engine = "pm" /\ pc = "backward" /\ n_done < max_iter
    /\ LET pos == ReversePos(n_done, max_iter)
           k == pos - 1
           r == get_next_smooth_density(carry, k)
       IN /\ carry' = r.p_smooth_k
          /\ ys_smooth' = [p \in DOMAIN ys_smooth \cup {pos} |->
                             IF p = pos THEN r.p_smooth_k ELSE ys_smooth[p]]
          /\ smooth_of' = [t \in DOMAIN smooth_of \cup {k} |->
                             IF t = k THEN r.p_smooth_k ELSE smooth_of[t]]
          /\ px' = r.px
          /\ unnorm' = r.unnorm
          /\ norm_ok' = (norm_ok /\ r.ok)
          /\ div_read' = div_read \cup {k + 1}
    /\ n_done' = n_done + 1
    /\ UNCHANGED <<engine, pc, max_iter, y, x_grid, model, ys_filter, ys_pred,
                   p_filter, p_pred, p_smooth_max_iter, ret, y_read,
                   novel_vars>>

ReturnPM ==
    /\ engine = "pm" /\ pc = "backward" /\ n_done = max_iter
    /\ LET delta == Delta(x_grid)
           p_smooth == AppendLast(ys_smooth, p_smooth_max_iter)
       IN ret' = [p_filter |-> ScaleAll(p_filter, delta),
                  p_pred |-> ScaleAll(p_pred, delta),
                  p_smooth |-> ScaleAll(p_smooth, delta)]
    /\ pc' = "done"
    /\ UNCHANGED <<engine, max_iter, y, x_grid, model, n_done, carry, ys_filter, ys_pred,
                   p_filter, p_pred, p_smooth_max_iter, ys_smooth, px, unnorm,
                   norm_ok, y_read, div_read, smooth_of,
                   novel_vars>>

-----------------------------------------------------------------------------
(* The sampling / kernel-density engine.                                   *)
(*                                                                         *)
(* A generator key is the path of split indices from the root key;         *)
(* rand.uniform[key] is the array of raw draws in [0, 1) that              *)
(* random.uniform yields for that key (the same key, the same draws).      *)

Samples == 1..NumSamples

Smp(fn) == Eager(fn, NumSamples)

(* random.split(key, num)[j] *)
split(key, j) == Append(key, j)

RootKey == <<>>

UDraws == {<<1, 4>>, <<1, 2>>, <<3, 4>>}
(* Raw draws of the dithering noise: every sample at the middle of its *)
(* range, or every other sample at the lower end.                      *)
NoiseDraws == {[m \in Samples |-> <<1, 2>>],
               [m \in Samples |-> IF m % 2 = 1 THEN <<0, 1>> ELSE <<1, 2>>]}
KernelVariances == {1, 4}
RvsTags == {"zero", "mix"}

(* v_rvs(key, shape) and e_rvs(key, shape): row k, column m of the sample. *)
v_rvs(tag, k, m) == IF tag = "zero" THEN 0 ELSE 2 * ((k + m) % 3) - 2
e_rvs(tag, k, m) == IF tag = "zero" THEN 0 ELSE ((k + 2 * m) % 3) - 1

(* jsp.stats.norm.pdf(z, loc, scale) in units of 1/(8*sqrt(2*pi)), rounded *)
(* to the unit: 8/scale * exp(-((z-loc)/scale)^2 / 2).                     *)
norm_pdf(z, loc, scale) ==
    LET d == Abs(z - loc)
    IN FromInt(CASE scale = 1 -> (IF d = 0 THEN 8 ELSE IF d = 1 THEN 5
                                  ELSE IF d = 2 THEN 1 ELSE 0)
                 [] scale = 4 -> (IF d <= 3 THEN 2 ELSE IF d <= 6 THEN 1 ELSE 0))

(* jnp.sqrt of a perfect square *)
sqrt(n) == CHOOSE r \in 0..n : r * r = n

(* jnp.cumsum *)
cumsum(a) == Vec([g \in Idx |-> SumTo(a, g)])

(* jnp.argmax: the first index that holds the maximum. *)
argmax(row) ==
    CHOOSE g \in Idx : /\ \A g2 \in Idx : ~Less(row[g], row[g2])
                       /\ \A g2 \in 1..(g - 1) : Less(row[g2], row[g])

(* random.uniform(key, minval, maxval) from the raw draw w of that key. *)
uniform(w, minval, maxval) == Add(minval, Mul(w, Sub(maxval, minval)))

inversion_sampling(rng_key, grid, px_grid) ==
    LET u == rand.uniform[split(rng_key, 0)]
        delta == Delta(grid)
        half == Div(FromInt(delta), FromInt(2))
        noise == Smp([m \in Samples |->
                    uniform(rand.uniform[split(rng_key, 1)][m], Neg(half), half)])
        cdf == cumsum(px_grid)
        bound_cdf == Smp([m \in Samples |-> Vec([g \in Idx |->
                        IF Less(cdf[g], u[m]) THEN cdf[g] ELSE Zero])])
        idx == Smp([m \in Samples |-> argmax(bound_cdf[m])])
    IN [u |-> u, noise |-> noise, cdf |-> cdf, idx |-> idx,
        x |-> Smp([m \in Samples |-> grid[idx[m]] + noise[m][1]])]

(* The unnormalized kernel sums of kde, before px / jnp.sum(px) / delta. *)
kde_raw(grid, x, kv) ==
    Vec([g \in Idx |-> SumTo(Smp([m \in Samples |-> norm_pdf(grid[g], x[m], kv)]), NumSamples)])

kde(grid, x, kv) ==
    LET raw == kde_raw(grid, x, kv)
        total == sum(raw)
    IN Vec([g \in Idx |-> Div(Div(raw[g], total), FromInt(Delta(grid)))])

(* y[k] on the array y of the simulated measurements (0-based, clamped to *)
(* the array as jnp indexing does), as a 1-based sample index.            *)
LikelihoodSample(k) == Min(k, NumSamples - 1) + 1

get_next_novel_density(p_filter_prev, k, y_measured, rng_key) ==
    LET s == inversion_sampling(rng_key, x_grid, p_filter_prev)
        x == Smp([m \in Samples |-> f(model.f, s.x[m], rand.v[k][m], k - 1)])
        dens == kde(x_grid, x, kernel_variance)
        p_pred_k == Normalize(dens)
        ysim == Smp([m \in Samples |-> h(model.h, x[m], rand.e[k][m])])
        threshold == 3 * sqrt(kernel_variance)
        distance == Smp([m \in Samples |->
                       AbsR(Sub(y_measured[MeasurementIndex(k)], FromInt(ysim[m])))])
        pass == Smp([m \in Samples |-> Less(distance[m], FromInt(threshold))])
        second == Smp([m \in Samples |->
                     norm_pdf(ysim[LikelihoodSample(k)], ysim[m], kernel_variance)])
        update_vals == Smp([m \in Samples |-> Vec([g \in Idx |->
                          IF pass[m]
                          THEN Mul(norm_pdf(x_grid[g], x[m], kernel_variance), second[m])
                          ELSE Zero])])
        raw == Vec([g \in Idx |->
                  SumTo(Smp([m \in Samples |-> update_vals[m][g]]), NumSamples)])
    IN [p_pred_k |-> p_pred_k, unnorm |-> raw, p_filter_k |-> Normalize(raw),
        ok |-> /\ NonzeroMass(kde_raw(x_grid, x, kernel_variance))
               /\ NonzeroMass(dens) /\ NonzeroMass(raw),
        part |-> [k |-> k, cdf |-> s.cdf, u |-> s.u, idx |-> s.idx, x0 |-> s.x,
                  x |-> x, ysim |-> ysim, pass |-> pass,
                  update_vals |-> update_vals]]

(* The key that the scan body receives at step k: rng_keys[2], bound once. *)
StepKey(k) == split(RootKey, 2)

NovelModels ==
    [f : {"walk", "fold"}, h : HTags, v_pdf : {"tri"}, e_pdf : {"tri"},
     x0_pdf : {"tri"}, v_rvs : RvsTags, e_rvs : {"mix"}]

InitNovel ==
    /\ engine = "novel"
    /\ max_iter \in 0..MaxIter
    /\ y \in {yy \in [0..max_iter -> {Inf, FromInt(0), FromInt(9)}] :
                 yy[0] = Inf /\ \A t \in 1..max_iter : yy[t] # Inf}
    /\ x_grid \in Grids
    /\ model \in NovelModels
    /\ kernel_variance \in KernelVariances
    /\ \E uu \in [Samples -> UDraws], nn \in NoiseDraws :
          rand = [v |-> [k \in 0..max_iter |-> Smp([m \in Samples |-> v_rvs(model.v_rvs, k, m)])],
                  e |-> [k \in 0..max_iter |-> Smp([m \in Samples |-> e_rvs(model.e_rvs, k, m)])],
                  uniform |-> [key \in {split(StepKey(1), 0), split(StepKey(1), 1)} |->
                                 IF key = split(StepKey(1), 0) THEN uu ELSE nn]]
    /\ pc = "forward"
    /\ n_done = 0
    /\ carry = p_filter0
    /\ norm_ok = NonzeroMass(Vec([g \in Idx |-> x0_pdf(model.x0_pdf, x_grid[g])]))
    /\ ys_filter = Empty /\ ys_pred = Empty /\ ys_smooth = Empty
    /\ p_filter = Empty /\ p_pred = Empty /\ p_smooth_max_iter = Empty
    /\ ret = Empty /\ px = Empty /\ unnorm = Empty
    /\ y_read = {} /\ div_read = {} /\ smooth_of = Empty
    /\ part = Empty /\ keys_used = Empty

(* One iteration of the scan over xs = 1..max_iter. *)
NovelStep ==
    /\ engine = "novel" /\ pc = "forward" /\ n_done < max_iter
    /\ LET k == n_done + 1
           r == get_next_novel_density(carry, k, y, StepKey(k))
       IN /\ carry' = r.p_filter_k
          /\ ys_filter' = Append(ys_filter, r.p_filter_k)
          /\ ys_pred' = Append(ys_pred, r.p_pred_k)
          /\ unnorm' = r.unnorm
          /\ norm_ok' = (norm_ok /\ r.ok)
          /\ y_read' = y_read \cup {MeasurementIndex(k)}
          /\ part' = r.part
          /\ keys_used' = Append(keys_used, StepKey(k))
    /\ n_done' = n_done + 1
    /\ UNCHANGED <<engine, pc, max_iter, y, x_grid, model, p_filter, p_pred,
                   p_smooth_max_iter, ys_smooth, ret, px, div_read, smooth_of,
                   kernel_variance, rand>>

ReturnNovel ==
    /\ engine = "novel" /\ pc = "forward" /\ n_done = max_iter
    /\ p_filter' = Prepend(p_filter0, ys_filter)
    /\ p_pred' = Prepend(p_pred0, ys_pred)
    /\ ret' = [p_filter |-> ScaleAll(p_filter', Delta(x_grid)),
               p_pred |-> ScaleAll(p_pred', Delta(x_grid))]
    /\ pc' = "done"
    /\ UNCHANGED <<engine, max_iter, y, x_grid, model, n_done, carry, ys_filter,
                   ys_pred, p_smooth_max_iter, ys_smooth, px, unnorm, norm_ok,
                   y_read, div_read, smooth_of, novel_vars>>

-----------------------------------------------------------------------------
Init == InitPM \/ InitNovel

Next ==
    \/ FilterPredStep
    \/ StartSmoothing
    \/ SmoothStep
    \/ ReturnPM
    \/ NovelStep
    \/ ReturnNovel

Spec == Init /\ [][Next]_vars

-----------------------------------------------------------------------------
(* Properties. *)

DeltaR == FromInt(Delta(x_grid))

NoNaN(a) == \A g \in Idx : ~IsNaN(a[g])

AllFinite(a) == \A g \in Idx : IsFinite(a[g])

ZeroMass(a) == \A g \in Idx : a[g] = Zero

(* The carry that the latest forward step started from. *)
PrevFilter == IF n_done = 1 THEN p_filter0 ELSE ys_filter[n_done - 1]

(* C1: when every normalization divided by a nonzero total mass, the       *)
(* returned filtering densities sum to 1/delta for every k in 0..max_iter  *)
(* and the returned predictive densities for every k in 1..max_iter, in    *)
(* both engines.                                                           *)
C1_ReturnedDensitiesNormalized ==
    (pc = "done" /\ norm_ok) =>
        /\ \A t \in 0..max_iter : Mul(sum(ret.p_filter[t]), DeltaR) = One
        /\ \A t \in 1..max_iter : Mul(sum(ret.p_pred[t]), DeltaR) = One

C1_Witness ==
    /\ pc = "done" /\ norm_ok /\ engine = "novel" /\ max_iter = MaxIter
    /\ ret.p_filter[max_iter] # ret.p_filter[0]
    /\ ret.p_pred[max_iter] # ret.p_filter[max_iter]

Y0Replacements == {Inf, FromInt(0), FromInt(2), FromInt(-7)}

(* C3: no step of either engine reads the measurement at index 0: the read *)
(* indices lie in 1..max_iter, and the latest forward step yields the same *)
(* filtering and predictive densities when y[0] is replaced.               *)
C3_SentinelNeverRead ==
    /\ y_read \subseteq 1..max_iter
    /\ (pc = "forward" /\ n_done >= 1) =>
          \A y0 \in Y0Replacements :
             LET yy == [y EXCEPT ![0] = y0]
                 r == IF engine = "pm"
                      THEN get_next_filter_pred_densities(PrevFilter, n_done, yy)
                      ELSE get_next_novel_density(PrevFilter, n_done, yy, StepKey(n_done))
             IN /\ r.p_filter_k = ys_filter[n_done]
                /\ r.p_pred_k = ys_pred[n_done]

C3_Witness ==
    /\ pc = "forward" /\ n_done = 1 /\ engine = "pm" /\ y_read = {1}
    /\ norm_ok /\ ys_filter[1] # ys_pred[1]

(* C4: once a forward step has found the unnormalized filtering mass zero  *)
(* at every grid point the run is aborted (pc = "failed"), and no NaN      *)
(* enters the filtering array.                                             *)
C4_DegenerateUpdateReported ==
    /\ (p_filter = Empty /\ n_done >= 1 /\ ZeroMass(unnorm)) => pc = "failed"
    /\ \A t \in DOMAIN ys_filter : NoNaN(ys_filter[t])

(* C5: the backward pass divides only by p_pred[1..max_iter], and after a  *)
(* forward pass without NaN no infinite or NaN value enters p_smooth[k].   *)
C5_GuardedSmoothingDivision ==
    /\ div_read \subseteq 1..max_iter
    /\ (engine = "pm" /\ pc = "backward"
          /\ \A t \in 0..max_iter : AllFinite(p_filter[t])) =>
          \A t \in DOMAIN smooth_of : AllFinite(smooth_of[t])

(* The smoothing density the latest backward step started from, and its k. *)
LastSmoothK == max_iter - n_done
PrevSmooth == IF n_done = 1 THEN p_smooth_max_iter ELSE smooth_of[LastSmoothK + 1]

(* C6: the unnormalized smoothing value at grid point x is p_filter[k](x)  *)
(* times the sum over the next state x' of kernel(x', x) * p_smooth[k+1](x')*)
(* / p_pred[k+1](x'), kernel rows being x' and columns x.                  *)
C6_SmoothingSumOverNextState ==
    (engine = "pm" /\ pc = "backward" /\ n_done >= 1) =>
        \A c \in Idx :
            unnorm[c] =
                Mul(p_filter[LastSmoothK][c],
                    SumTo([r \in Idx |->
                             Div(Mul(Kernel(LastSmoothK)[r][c], PrevSmooth[r]),
                                 p_pred[LastSmoothK + 1][r])], GridSize))

(* C7: the kernel entry for (x', x) is v_pdf(x' - f(x, 0, k-1)) in forward *)
(* step k, and the backward step for k uses the kernel of step k+1.        *)
C7_KernelIsNoiseDensityOfResidual ==
    (engine = "pm" /\ px # Empty) =>
        LET kk == IF pc = "forward" THEN n_done - 1
                  ELSE IF n_done = 0 THEN max_iter - 1
                  ELSE LastSmoothK
        IN \A r \in Idx, c \in Idx :
              px[r][c] = v_pdf(model.v_pdf, x_grid[r] - f(model.f, x_grid[c], 0, kk))

(* C8: a particle that passes the gate on the realized measurement y[k]    *)
(* contributes Gaussian(x; particle) * Gaussian(y[k]; simulated            *)
(* measurement) to every grid point, a particle that fails it zero.        *)
C8_ContributionUsesRealizedMeasurement ==
    (engine = "novel" /\ part # Empty) =>
        \A m \in Samples, g \in Idx :
            LET yk == y[part.k][1]
                gate == Abs(yk - part.ysim[m]) < 3 * sqrt(kernel_variance)
            IN part.update_vals[m][g] =
                 IF gate
                 THEN Mul(norm_pdf(x_grid[g], part.x[m], kernel_variance),
                          norm_pdf(yk, part.ysim[m], kernel_variance))
                 ELSE Zero

(* C9: for a pmf that sums to 1, inversion_sampling selects for the draw u *)
(* the index i with cdf[i-1] < u <= cdf[i], and the sample lies within     *)
(* delta/2 of that grid point.                                             *)
C9_InverseCdfLookup ==
    (engine = "novel" /\ part # Empty /\ part.cdf[GridSize] = One) =>
        \A m \in Samples :
            LET sel == part.idx[m]
                below == IF sel = 1 THEN Zero ELSE part.cdf[sel - 1]
            IN /\ Less(below, part.u[m])
               /\ ~Less(part.cdf[sel], part.u[m])
               /\ 2 * Abs(part.x0[m] - x_grid[sel]) <= Delta(x_grid)

(* C10: the keys passed to inversion_sampling at two distinct steps differ. *)
C10_KeyAdvancedEachStep ==
    \A j \in DOMAIN keys_used, k \in DOMAIN keys_used :
        j # k => keys_used[j] # keys_used[k]

=============================================================================
